---- MODULE Spec2Model ----
(***************************************************************************)
(* The cereal dashboard pipeline of hello.py, in its two variants:         *)
(*   "first" = src/Preswald-Assessment/hello.py                            *)
(*   "final" = src/preswald-assessment-final/hello.py                      *)
(* Three workflow atoms (load_data, analyze_data, visualize_data) are run  *)
(* by workflow.execute() in dependency order.  Tables are records          *)
(* [cols, rows]; a cell is a number, a text, a string label or missing.    *)
(* Real-valued columns are modelled with integer values.                   *)
(***************************************************************************)
EXTENDS Integers, Sequences, FiniteSets, TLC

\* ------------------------------------------------------------------ bounds
MaxRows == 2

\* ------------------------------------------------------------------- cells
NA == [k |-> "na", n |-> 0, s |-> <<>>]
Num(n) == [k |-> "num", n |-> n, s |-> <<>>]
Txt(chars) == [k |-> "txt", n |-> 0, s |-> chars]
Str(x) == [k |-> "str", n |-> 0, s |-> <<x>>]

IsNA(c) == c.k = "na"

Digits == [c \in {"0", "1", "2", "3", "4", "5", "6", "7", "8", "9"} |->
             CASE c = "0" -> 0 [] c = "1" -> 1 [] c = "2" -> 2 [] c = "3" -> 3
               [] c = "4" -> 4 [] c = "5" -> 5 [] c = "6" -> 6 [] c = "7" -> 7
               [] c = "8" -> 8 [] c = "9" -> 9]

RECURSIVE ParseDigits(_, _)
\* value of a digit string read left to right, or -1 when a character is no digit
ParseDigits(chars, acc) ==
    IF chars = <<>> THEN acc
    ELSE IF Head(chars) \in DOMAIN Digits
         THEN ParseDigits(Tail(chars), acc * 10 + Digits[Head(chars)])
         ELSE -1

\* pd.to_numeric(..., errors="coerce") on one cell
to_numeric(c) ==
    CASE c.k = "num" -> c
      [] c.k = "na" -> NA
      [] c.k = "str" -> NA
      [] c.k = "txt" ->
           IF c.s = <<>> THEN NA
           ELSE IF Head(c.s) = "-"
                THEN IF Tail(c.s) = <<>> \/ ParseDigits(Tail(c.s), 0) < 0 THEN NA
                     ELSE Num(0 - ParseDigits(Tail(c.s), 0))
                ELSE IF ParseDigits(c.s, 0) < 0 THEN NA
                     ELSE Num(ParseDigits(c.s, 0))

\* ----------------------------------------------------------------- columns
numeric_cols == {"calories", "protein", "fat", "sodium", "fiber", "carbo", "sugars",
                 "potass", "vitamins", "shelf", "weight", "cups", "rating"}
first_numeric_cols == {"carbo", "sugars", "potass"}
SourceCols == {"name", "mfr", "type"} \cup numeric_cols

Variants == {"first", "final"}

coerced_cols(v) == IF v = "final" THEN numeric_cols ELSE first_numeric_cols

mfr_map_without_Q == [c \in {"A", "G", "K", "N", "P", "R"} |->
              CASE c = "A" -> "American Home Food Products"
                [] c = "G" -> "General Mills"
                [] c = "K" -> "Kelloggs"
                [] c = "N" -> "Nabisco"
                [] c = "P" -> "Post"
                [] c = "R" -> "Ralston Purina"]

mfr_map == [c \in {"A", "G", "K", "N", "P", "Q", "R"} |->
              CASE c = "A" -> "American Home Food Products"
                [] c = "G" -> "General Mills"
                [] c = "K" -> "Kelloggs"
                [] c = "N" -> "Nabisco"
                [] c = "P" -> "Post"
                [] c = "Q" -> "Quaker Oats"
                [] c = "R" -> "Ralston Purina"]

type_map == [c \in {"C", "H"} |-> IF c = "C" THEN "Cold" ELSE "Hot"]

\* Series.map(dict) on one cell: a key the dict lacks gives a missing value
MapCell(m, c) == IF c.k = "str" /\ c.s[1] \in DOMAIN m THEN Str(m[c.s[1]]) ELSE NA

EmptyFrame == [cols |-> {}, rows |-> <<>>]

\* DataFrame.dropna(subset=...)
dropna(rows, subset) == SelectSeq(rows, LAMBDA r : \A c \in subset : ~IsNA(r[c]))

Coerce(r, cs) == [c \in DOMAIN r |-> IF c \in cs THEN to_numeric(r[c]) ELSE r[c]]

Enrich(r) ==
    [c \in DOMAIN r \cup {"manufacturer_full", "type_full"} |->
        CASE c = "manufacturer_full" -> MapCell(mfr_map, r["mfr"])
          [] c = "type_full" -> MapCell(type_map, r["type"])
          [] OTHER -> r[c]]

MapSeq(f(_), s) == [i \in 1..Len(s) |-> f(s[i])]

Alert(about, level, phrase, n, cutoff) ==
    [about |-> about, level |-> level, phrase |-> phrase, n |-> n, cutoff |-> cutoff]

\* load_data: outcome of the atom for a variant, given whether get_df succeeds
load_data(v, ok, src) ==
    IF ~ok
    THEN IF v = "first"
         THEN [raised |-> FALSE, ret |-> EmptyFrame,
               alerts |-> <<Alert("load", "error", "Error loading data", 0, 0)>>]
         ELSE [raised |-> TRUE, ret |-> EmptyFrame, alerts |-> <<>>]
    ELSE LET coerced == MapSeq(LAMBDA r : Coerce(r, coerced_cols(v)), src.rows)
             kept == dropna(coerced, coerced_cols(v))
         IN [raised |-> FALSE,
             ret |-> [cols |-> src.cols \cup {"manufacturer_full", "type_full"},
                      rows |-> MapSeq(Enrich, kept)],
             alerts |-> <<>>]

\* ------------------------------------------------------------ analyze_data
\* elementwise `column > 0`: a text cell cannot be compared with a number
Comparable(c) == c.k \in {"num", "na"}
GtZero_nonstrict(c) == c.k = "num" /\ c.n >= 0
GtZero(c) == c.k = "num" /\ c.n > 0
GeCutoff(c, t) == c.k = "num" /\ c.n >= t

\* the row filter of analyze_data; [raised, rows]
CleanRows(v, rows) ==
    IF v = "final"
    THEN IF \E i \in 1..Len(rows) : ~Comparable(rows[i]["calories"]) \/ ~Comparable(rows[i]["rating"])
         THEN [raised |-> TRUE, rows |-> <<>>]
         ELSE [raised |-> FALSE,
               rows |-> SelectSeq(rows, LAMBDA r : GtZero(r["calories"]) /\ GtZero(r["rating"]))]
    ELSE IF \E i \in 1..Len(rows) : ~Comparable(rows[i]["calories"])
         THEN [raised |-> TRUE, rows |-> <<>>]
         ELSE LET byCal == SelectSeq(rows, LAMBDA r : GtZero(r["calories"]))
              IN IF \E i \in 1..Len(byCal) : ~Comparable(byCal[i]["rating"])
                 THEN [raised |-> TRUE, rows |-> <<>>]
                 ELSE [raised |-> FALSE,
                       rows |-> SelectSeq(byCal, LAMBDA r : GtZero(r["rating"]))]

\* df.replace(-1, pd.NA): every cell of every column
ReplaceSentinel(r) == [c \in DOMAIN r |-> IF r[c].k = "num" /\ r[c].n = -1 THEN NA ELSE r[c]]

view_cols == {"name", "manufacturer_full", "rating"}

\* a selected column; a column the table lacks has no value
Project(r, cs) == [c \in cs |-> IF c \in DOMAIN r THEN r[c] ELSE NA]

RECURSIVE InsertDesc(_, _)
InsertDesc(r, sorted) ==
    IF sorted = <<>> THEN <<r>>
    ELSE IF Head(sorted)["rating"].n >= r["rating"].n
         THEN <<Head(sorted)>> \o InsertDesc(r, Tail(sorted))
         ELSE <<r>> \o sorted

RECURSIVE OrderByRatingDesc(_)
OrderByRatingDesc(rows) ==
    IF rows = <<>> THEN <<>>
    ELSE InsertDesc(rows[Len(rows)], OrderByRatingDesc(SubSeq(rows, 1, Len(rows) - 1)))

\* query(): SELECT name, manufacturer_full, rating FROM sample_csv
\*          WHERE rating >= t ORDER BY rating DESC, run on the source table
query(src, t) ==
    LET cast == MapSeq(LAMBDA r : [r EXCEPT !["rating"] = to_numeric(r["rating"])], src.rows)
        hits == SelectSeq(cast, LAMBDA r : GeCutoff(r["rating"], t))
    IN MapSeq(LAMBDA r : Project(r, view_cols), OrderByRatingDesc(hits))

\* the three introductory query alerts of the final variant
IntroAlerts(v, src) ==
    IF v = "final"
    THEN <<Alert("total", "info", "We chose to look at", Len(src.rows), 0),
           Alert("average", "info", "average calories", 0, 0)>>
         \o (IF Len(src.rows) > 0
             THEN <<Alert("sugar", "warning", "3 most sugary cereals",
                          IF Len(src.rows) < 3 THEN Len(src.rows) ELSE 3, 0)>>
             ELSE <<>>)
    ELSE <<>>

\* the threshold view: a DataFrame filter in the final variant, a query in the first
ThresholdView(v, df, src, t) ==
    IF v = "final"
    THEN MapSeq(LAMBDA r : Project(r, view_cols),
                SelectSeq(df.rows, LAMBDA r : GeCutoff(r["rating"], t)))
    ELSE query(src, t)

\* the alert shown for the threshold view
ThresholdAlert(v, n, t) ==
    IF v = "final"
    THEN IF n = 1 THEN Alert("threshold", "success", "There is", n, t)
         ELSE Alert("threshold", "success", "There are", n, t)
    ELSE IF n # 0 THEN Alert("threshold", "success", "There are", n, t)
         ELSE Alert("threshold", "warning", "No cereals found", 0, t)

\* the table the atom hands to visualize_data
Returned_view(df, filtered) == [cols |-> view_cols, rows |-> filtered]
Returned(df, filtered) == df

NoResult == [raised |-> TRUE, ret |-> EmptyFrame, view |-> <<>>, alerts |-> <<>>]

\* analyze_data: outcome of the atom on the loader's table with slider value t
analyze_data(v, loaded, src, t) ==
    IF ~({"calories", "rating"} \subseteq loaded.cols) THEN NoResult
    ELSE LET clean == CleanRows(v, loaded.rows)
         IN IF clean.raised THEN NoResult
            ELSE LET df == [cols |-> loaded.cols, rows |-> MapSeq(ReplaceSentinel, clean.rows)]
                     filtered == ThresholdView(v, df, src, t)
                 IN [raised |-> FALSE,
                     ret |-> Returned(df, filtered),
                     view |-> filtered,
                     alerts |-> IntroAlerts(v, src) \o <<ThresholdAlert(v, Len(filtered), t)>>]

\* ---------------------------------------------------------- visualize_data
chart_cols == {"calories", "protein", "fat", "rating", "manufacturer_full", "type_full"}

visualize_data(v, df) ==
    IF ~(chart_cols \subseteq df.cols)
    THEN [raised |-> TRUE, plots |-> <<>>, alerts |-> <<>>]
    ELSE [raised |-> FALSE,
          plots |-> <<"histogram", "scatter", "box", "bar">>,
          alerts |-> <<Alert("observation", "info", "calories clustered", 0, 0),
                       Alert("observation", "info", "protein correlation", 0, 0),
                       Alert("observation", "success", "higher ratings", 0, 0)>>]

\* ---------------------------------------------------------------- workflow
Atoms == {"load_data", "analyze_data", "visualize_data"}

dependencies == [a \in Atoms |->
                   CASE a = "load_data" -> {}
                     [] a = "analyze_data" -> {"load_data"}
                     [] a = "visualize_data" -> {"analyze_data"}]

\* slider(min_val=0, max_val=100, step=5)
slider_min == 0
slider_max == 100
slider_step == 5
SliderValues == {t \in slider_min..slider_max : (t - slider_min) % slider_step = 0}

\* -------------------------------------------------------------- input rows
Base == [name |-> Str("Bran"), mfr |-> Str("K"), type |-> Str("C"),
         calories |-> Num(110), protein |-> Num(4), fat |-> Num(1), sodium |-> Num(130),
         fiber |-> Num(10), carbo |-> Num(5), sugars |-> Num(6), potass |-> Num(280),
         vitamins |-> Num(25), shelf |-> Num(3), weight |-> Num(1), cups |-> Num(1),
         rating |-> Num(93)]

Row(name, mfr, type, calories, rating) ==
    [Base EXCEPT !["name"] = Str(name), !["mfr"] = mfr, !["type"] = type,
                 !["calories"] = calories, !["rating"] = rating]

\* rows combined into tables of several rows
RowPool ==
    {Base,
     Row("Oats", Str("G"), Str("C"), Num(100), Num(40)),
     Row("Wheat", Str("N"), Str("H"), Num(90), Num(100)),
     Row("Store", Str("X"), Str("Z"), Num(120), Num(60)),
     Row("Zero", Str("Q"), Str("C"), Num(70), Num(0)),
     Row("Water", Str("P"), Str("C"), Num(0), Num(50)),
     Row("Unrated", Str("R"), Str("C"), Num(110), Num(-1)),
     Row("Texty", Str("A"), Str("H"), Txt(<<"8", "0">>), Txt(<<"7", "5">>)),
     [Base EXCEPT !["name"] = Str("Sentinel"), !["potass"] = Num(-1), !["rating"] = Num(45)]}

\* rows tried alone: a missing or unparseable value in one column
ColumnPool ==
    {Row("Anon", NA, NA, Num(50), Num(85)),
     Row("Junk", Str("K"), Str("C"), Num(110), Txt(<<"n", "a">>)),
     [Base EXCEPT !["name"] = Str("Heavy"), !["weight"] = Txt(<<"-", "x">>)],
     [Base EXCEPT !["name"] = Str("Sweet"), !["sugars"] = Txt(<<"-", "1">>)]}
    \cup {[Base EXCEPT ![c] = NA] : c \in numeric_cols}

RECURSIVE SeqsUpTo(_, _)
SeqsUpTo(S, n) ==
    IF n = 0 THEN {<<>>}
    ELSE LET shorter == SeqsUpTo(S, n - 1)
         IN shorter \cup {Append(s, x) : s \in {q \in shorter : Len(q) = n - 1}, x \in S}

SourceTables ==
    {[cols |-> SourceCols, rows |-> rs] :
        rs \in SeqsUpTo(RowPool, MaxRows) \cup {<<r>> : r \in ColumnPool}}

\* ------------------------------------------------------------------- state
VARIABLES variant, available, source, status, runs, result, view, rating_cutoff,
          alerts, plots

vars == <<variant, available, source, status, runs, result, view, rating_cutoff,
          alerts, plots>>

Init ==
    /\ variant \in Variants
    /\ available \in BOOLEAN
    /\ source \in (IF available THEN SourceTables ELSE {EmptyFrame})
    /\ status = [a \in Atoms |-> "pending"]
    /\ runs = [a \in Atoms |-> 0]
    /\ result = [a \in Atoms |-> EmptyFrame]
    /\ view = <<>>
    /\ rating_cutoff = 0
    /\ alerts = <<>>
    /\ plots = <<>>

Idle == \A a \in Atoms : status[a] # "running"
Failed == \E a \in Atoms : status[a] = "raised"

\* workflow.execute(): call the next atom whose dependencies have returned
Start(a) ==
    /\ Idle /\ ~Failed
    /\ status[a] = "pending"
    /\ \A d \in dependencies[a] : status[d] = "returned"
    /\ status' = [status EXCEPT ![a] = "running"]
    /\ runs' = [runs EXCEPT ![a] = @ + 1]
    /\ UNCHANGED <<variant, available, source, result, view, rating_cutoff, alerts, plots>>

Finish(a, out) ==
    /\ status' = [status EXCEPT ![a] = IF out.raised THEN "raised" ELSE "returned"]
    /\ alerts' = alerts \o out.alerts

RunLoad ==
    /\ status["load_data"] = "running"
    /\ LET out == load_data(variant, available, source)
       IN /\ Finish("load_data", out)
          /\ result' = [result EXCEPT !["load_data"] = out.ret]
    /\ UNCHANGED <<variant, available, source, runs, view, rating_cutoff, plots>>

RunAnalyze ==
    /\ status["analyze_data"] = "running"
    /\ \E t \in SliderValues :
         LET out == analyze_data(variant, result["load_data"], source, t)
         IN /\ Finish("analyze_data", out)
            /\ result' = [result EXCEPT !["analyze_data"] = out.ret]
            /\ view' = out.view
            /\ rating_cutoff' = IF out.raised THEN rating_cutoff ELSE t
    /\ UNCHANGED <<variant, available, source, runs, plots>>

RunVisualize ==
    /\ status["visualize_data"] = "running"
    /\ LET out == visualize_data(variant, result["analyze_data"])
       IN /\ Finish("visualize_data", out)
          /\ plots' = out.plots
    /\ UNCHANGED <<variant, available, source, runs, result, view, rating_cutoff>>

Next ==
    \/ \E a \in Atoms : Start(a)
    \/ RunLoad
    \/ RunAnalyze
    \/ RunVisualize

Spec == Init /\ [][Next]_vars

Finished == Idle /\ (Failed \/ \A a \in Atoms : status[a] = "returned")

\* ------------------------------------------------------------------ claims
Returns(a) == status[a] = "returned"
Loaded == result["load_data"]
Analyzed == result["analyze_data"]
ThresholdAlerts == SelectSeq(alerts, LAMBDA al : al.about = "threshold")
Count(seq, x) == Cardinality({i \in 1..Len(seq) : seq[i] = x})
SameRows(s1, s2) ==
    /\ Len(s1) = Len(s2)
    /\ \A i \in 1..Len(s1) : Count(s1, s1[i]) = Count(s2, s1[i])
KnownMfr == {Str(c) : c \in {"A", "G", "K", "N", "P", "Q", "R"}}
KnownType == {Str(c) : c \in {"C", "H"}}

\* C1: when acquiring the source fails in load_data, the failure becomes an
\* error alert plus an empty table, and analyze_data and visualize_data then
\* run to completion on that empty table without raising.
C1_LoadFailureTolerated ==
    (~available /\ Finished) =>
        /\ \A a \in Atoms : Returns(a)
        /\ Loaded = EmptyFrame
        /\ \E i \in 1..Len(alerts) : alerts[i].about = "load" /\ alerts[i].level = "error"

\* C2: the threshold view holds exactly the rows of the cleaned table returned
\* by analyze_data whose rating is >= the threshold, projected to
\* (name, manufacturer_full, rating).
C2_ViewIsFilterOfCleaned ==
    Returns("analyze_data") =>
        SameRows(view, MapSeq(LAMBDA r : Project(r, view_cols),
                              SelectSeq(Analyzed.rows,
                                        LAMBDA r : r["rating"].k = "num"
                                                   /\ r["rating"].n >= rating_cutoff)))

\* C3: no row of the table returned by analyze_data has calories <= 0 or
\* rating <= 0; rows with a zero value are excluded.
C3_NoNonPositiveRows ==
    Returns("analyze_data") =>
        \A i \in 1..Len(Analyzed.rows) :
            /\ Analyzed.rows[i]["calories"].k = "num" /\ ~(Analyzed.rows[i]["calories"].n <= 0)
            /\ Analyzed.rows[i]["rating"].k = "num" /\ ~(Analyzed.rows[i]["rating"].n <= 0)

\* a cleaned table that kept a row while the loader's table held a zero-rated row
C3_Witness ==
    /\ Returns("analyze_data")
    /\ Len(Analyzed.rows) = 1
    /\ \E i \in 1..Len(Loaded.rows) : Loaded.rows[i]["rating"] = Num(0)

\* C4: every row of the table returned by load_data holds a parsed number in
\* every listed numeric column.
C4_LoaderNumericComplete ==
    Returns("load_data") =>
        \A i \in 1..Len(Loaded.rows) : \A c \in numeric_cols : Loaded.rows[i][c].k = "num"

\* C5: in the table returned by load_data, manufacturer_full is non-missing
\* exactly for mfr in {A,G,K,N,P,Q,R} and type_full exactly for type in {C,H};
\* an unknown code never makes load_data raise.
C5_LookupIff ==
    /\ Returns("load_data") =>
         \A i \in 1..Len(Loaded.rows) :
            /\ ~IsNA(Loaded.rows[i]["manufacturer_full"]) <=> Loaded.rows[i]["mfr"] \in KnownMfr
            /\ ~IsNA(Loaded.rows[i]["type_full"]) <=> Loaded.rows[i]["type"] \in KnownType
    /\ available => status["load_data"] # "raised"

\* load_data returned a table holding a row with an unknown code and a row with code Q
C5_Witness ==
    /\ Returns("load_data")
    /\ \E i \in 1..Len(Loaded.rows) :
          Loaded.rows[i]["mfr"] = Str("X") /\ IsNA(Loaded.rows[i]["manufacturer_full"])
          /\ Loaded.rows[i]["type"] = Str("Z") /\ IsNA(Loaded.rows[i]["type_full"])
    /\ \E i \in 1..Len(Loaded.rows) :
          Loaded.rows[i]["mfr"] = Str("Q") /\ Loaded.rows[i]["manufacturer_full"] = Str("Quaker Oats")

\* C6: the threshold alert is phrased by the result count N: N = 1 gives
\* "There is 1 cereal", N = 0 or N >= 2 gives "There are N cereals".
C6_AlertPhrasing ==
    Returns("analyze_data") =>
        /\ Len(ThresholdAlerts) = 1
        /\ ThresholdAlerts[1].n = Len(view)
        /\ ThresholdAlerts[1].phrase = (IF Len(view) = 1 THEN "There is" ELSE "There are")

\* C7: a threshold view with zero rows gives a warning-level alert and not a
\* success-level one; one or more rows give a success alert with the count.
C7_EmptyViewWarns ==
    Returns("analyze_data") =>
        /\ Len(ThresholdAlerts) = 1
        /\ Len(view) = 0 => ThresholdAlerts[1].level = "warning"
        /\ Len(view) >= 1 => ThresholdAlerts[1].level = "success" /\ ThresholdAlerts[1].n = Len(view)

\* C8: in one execution each stage runs exactly once, in the order load_data,
\* analyze_data, visualize_data, each starting only after its predecessor returned.
C8_EachStageOnceInOrder ==
    /\ status["analyze_data"] # "pending" => Returns("load_data")
    /\ status["visualize_data"] # "pending" => Returns("analyze_data")
    /\ Finished => \A a \in Atoms : runs[a] = 1

\* C9: the rows of the threshold view are ordered by rating descending.
C9_ViewSortedDesc ==
    Returns("analyze_data") =>
        \A i \in 1..(Len(view) - 1) : view[i]["rating"].n >= view[i + 1]["rating"].n

\* C10: the table analyze_data returns is the cleaned table, the same for
\* every threshold value; the threshold changes only the view and its alert.
C10_ReturnIndependentOfThreshold ==
    Returns("analyze_data") =>
        \A t \in SliderValues \cup {slider_max + 1} :
            LET out == analyze_data(variant, Loaded, source, t)
            IN ~out.raised /\ out.ret = Analyzed

\* analyze_data returned while the chosen threshold kept one row and cut another
C10_Witness ==
    /\ Returns("analyze_data")
    /\ Len(Analyzed.rows) = 2
    /\ Len(view) = 1
    /\ rating_cutoff > 0
====
